---- MODULE Spec2Model ----
(***************************************************************************)
(* Model of robwil/darebee-workout: the HTTP handler in its four variants  *)
(* (earliest, cache-bypassing, key-value cache, document-store cache), the *)
(* pure helpers it calls and the two cache backends.                       *)
(*                                                                         *)
(* A Go string is a sequence of one-character strings.  Two elements stand *)
(* for things a one-character TLA+ string cannot spell: BadByte is a byte  *)
(* that is not valid UTF-8 and ReplChar is the rune U+FFFD.  In a page     *)
(* body the element EmbedLit stands for the literal "youtube.com/embed/".  *)
(***************************************************************************)
EXTENDS Integers, Sequences, FiniteSets, TLC

\* ------------------------------------------------------------------------
\* Bounds of the model
\* ------------------------------------------------------------------------

\* longest OCR text, in lines
MaxLines == 2

\* ------------------------------------------------------------------------
\* Characters
\* ------------------------------------------------------------------------

BadByte == "xFF"
ReplChar == "uFFFD"
EmbedLit == "youtube.com/embed/"

DigitChars == {"0", "1", "2", "3", "4", "5", "6", "7", "8", "9"}

LowerChars == {"a", "b", "c", "d", "e", "f", "g", "h", "i", "j", "k", "l", "m",
               "n", "o", "p", "q", "r", "s", "t", "u", "v", "w", "x", "y", "z"}

UpperChars == {"A", "B", "C", "D", "E", "F", "G", "H", "I", "J", "K", "L", "M",
               "N", "O", "P", "Q", "R", "S", "T", "U", "V", "W", "X", "Y", "Z"}

\* regexp class \s
SpaceChars == {" ", "\t", "\n", "\f", "\r"}

\* regexp class \w
WordChars == DigitChars \cup LowerChars \cup UpperChars \cup {"_"}

\* F applied to the value of e, with e evaluated once
With(e, F(_)) == CHOOSE y \in {F(x) : x \in {e}} : TRUE

\* strings.ToLower, one character
ToLowerChar(c) ==
  CASE c = "A" -> "a" [] c = "B" -> "b" [] c = "C" -> "c" [] c = "D" -> "d"
    [] c = "E" -> "e" [] c = "F" -> "f" [] c = "G" -> "g" [] c = "H" -> "h"
    [] c = "I" -> "i" [] c = "J" -> "j" [] c = "K" -> "k" [] c = "L" -> "l"
    [] c = "M" -> "m" [] c = "N" -> "n" [] c = "O" -> "o" [] c = "P" -> "p"
    [] c = "Q" -> "q" [] c = "R" -> "r" [] c = "S" -> "s" [] c = "T" -> "t"
    [] c = "U" -> "u" [] c = "V" -> "v" [] c = "W" -> "w" [] c = "X" -> "x"
    [] c = "Y" -> "y" [] c = "Z" -> "z" [] OTHER -> c

\* strings.ToLower
ToLower(s) == [i \in 1..Len(s) |-> ToLowerChar(s[i])]

\* number of leading elements of s that lie in S
RECURSIVE LeadLen(_, _)
LeadLen(s, S) ==
  IF s = <<>> \/ Head(s) \notin S THEN 0 ELSE 1 + LeadLen(Tail(s), S)

\* strings.Contains(s, sub)
Contains(s, sub) ==
  \E i \in 1..(Len(s) - Len(sub) + 1) : SubSeq(s, i, i + Len(sub) - 1) = sub

\* strings.Split(text, "\n")
RECURSIVE Split(_)
Split(text) ==
  LET n == LeadLen(text, {c \in {text[i] : i \in 1..Len(text)} : c # "\n"})
  IN  IF n = Len(text) THEN <<text>>
      ELSE <<SubSeq(text, 1, n)>> \o Split(SubSeq(text, n + 2, Len(text)))

\* ------------------------------------------------------------------------
\* Exercise Name Normalizer
\* ------------------------------------------------------------------------

BetweenLit == <<"b", "e", "t", "w", "e", "e", "n">>
ExerciseSuffix == <<"-", "e", "x", "e", "r", "c", "i", "s", "e">>
AltArmLegRaises == <<"a", "l", "t", "-", "a", "r", "m", "-", "l", "e", "g", "-", "r", "a", "i", "s", "e", "s">>
ArmLegRaises == <<"a", "r", "m", "-", "l", "e", "g", "-", "r", "a", "i", "s", "e", "s">>
LungesExercise == <<"l", "u", "n", "g", "e", "s", "-", "e", "x", "e", "r", "c", "i", "s", "e">>
ForwardLunges == <<"f", "o", "r", "w", "a", "r", "d", "-", "l", "u", "n", "g", "e", "s">>

\* the exceptions table; the empty string is Go's zero value for a missing key
exceptions(str) ==
  CASE str = AltArmLegRaises -> ArmLegRaises
    [] str = LungesExercise -> ForwardLunges
    [] OTHER -> <<>>

\* The match of ^(\d+)\s+(.+) on line: group 2, or <<>> when there is no match
\* (group 2 is never empty in a match).  \d+ takes every leading digit; \s+
\* is greedy but gives characters back until (.+) finds at least one
\* character that is not a newline; (.+) runs to the next newline.
CountMatch(line) ==
  LET d    == LeadLen(line, DigitChars)
      rest == SubSeq(line, d + 1, Len(line))
      w    == LeadLen(rest, SpaceChars)
      ks   == {k \in 1..w : k + 1 <= Len(rest) /\ rest[k + 1] # "\n"}
  IN  IF d = 0 \/ ks = {} THEN <<>>
      ELSE LET k    == CHOOSE x \in ks : \A y \in ks : y <= x
               tail == SubSeq(rest, k + 1, Len(rest))
               n    == LeadLen(tail, {c \in {tail[i] : i \in 1..Len(tail)} : c # "\n"})
           IN  SubSeq(tail, 1, n)

\* regexp [^\w] replaced by "-"
ReplaceNonWord(s) == [i \in 1..Len(s) |-> IF s[i] \in WordChars THEN s[i] ELSE "-"]

\* regexp -+ replaced by "-"
RECURSIVE CollapseHyphens(_)
CollapseHyphens(s) ==
  IF Len(s) < 2 THEN s
  ELSE IF s[1] = "-" /\ s[2] = "-" THEN CollapseHyphens(Tail(s))
       ELSE <<s[1]>> \o CollapseHyphens(Tail(s))

\* a variant that looks the slug up in the exceptions before the suffix is added
Slug_LookupFirst(line, matches) ==
  IF Contains(line, BetweenLit) THEN <<>>
  ELSE With(CollapseHyphens(ReplaceNonWord(matches)), LAMBDA str0 :
         With(IF exceptions(str0) # <<>> THEN exceptions(str0) ELSE str0, LAMBDA str :
           IF ~Contains(str, <<"-">>) THEN str \o ExerciseSuffix ELSE str))

\* getVideoName after the match: matches is group 2
Slug(line, matches) ==
  IF Contains(line, BetweenLit) THEN <<>>
  ELSE With(CollapseHyphens(ReplaceNonWord(matches)), LAMBDA str0 :
         With(IF ~Contains(str0, <<"-">>) THEN str0 \o ExerciseSuffix ELSE str0, LAMBDA str :
           IF exceptions(str) # <<>> THEN exceptions(str) ELSE str))

\* a variant that does not lower-case the line
getVideoName_NoLower(rawLine) ==
  With(CountMatch(rawLine), LAMBDA matches :
    IF matches # <<>> THEN Slug(rawLine, matches) ELSE <<>>)

getVideoName(rawLine) ==
  With(ToLower(rawLine), LAMBDA line :
    With(CountMatch(line), LAMBDA matches :
      IF matches # <<>> THEN Slug(line, matches) ELSE <<>>))

\* ------------------------------------------------------------------------
\* Image / video URL resolver
\* ------------------------------------------------------------------------

ImagePrefix == <<"h", "t", "t", "p", "s", ":", "/", "/", "d", "a", "r", "e", "b", "e", "e", ".", "c", "o", "m", "/", "i", "m", "a", "g", "e", "s", "/", "p", "r", "o", "g", "r", "a", "m", "s", "/">>
ImageMiddle == <<"/", "w", "e", "b", "/", "d", "a", "y">>
ImageSuffix == <<".", "j", "p", "g">>
VideoPrefix == <<"h", "t", "t", "p", "s", ":", "/", "/", "d", "a", "r", "e", "b", "e", "e", ".", "c", "o", "m", "/", "e", "x", "e", "r", "c", "i", "s", "e", "s", "/">>
VideoSuffix == <<".", "h", "t", "m", "l">>

DigitVal(c) ==
  CASE c = "0" -> 0 [] c = "1" -> 1 [] c = "2" -> 2 [] c = "3" -> 3 [] c = "4" -> 4
    [] c = "5" -> 5 [] c = "6" -> 6 [] c = "7" -> 7 [] c = "8" -> 8 [] c = "9" -> 9

DigitChar(n) ==
  CASE n = 0 -> "0" [] n = 1 -> "1" [] n = 2 -> "2" [] n = 3 -> "3" [] n = 4 -> "4"
    [] n = 5 -> "5" [] n = 6 -> "6" [] n = 7 -> "7" [] n = 8 -> "8" [] n = 9 -> "9"

RECURSIVE DigitsVal(_)
DigitsVal(s) ==
  IF s = <<>> THEN 0 ELSE 10 * DigitsVal(SubSeq(s, 1, Len(s) - 1)) + DigitVal(s[Len(s)])

\* strconv.Atoi: an optional sign, then one or more decimal digits (the
\* strings of the model are far shorter than the range of int)
Atoi(s) ==
  LET signed == s # <<>> /\ s[1] \in {"+", "-"}
      ds     == IF signed THEN Tail(s) ELSE s
  IN  IF ds = <<>> \/ LeadLen(ds, DigitChars) # Len(ds)
      THEN [err |-> TRUE, n |-> 0]
      ELSE [err |-> FALSE,
            n   |-> IF signed /\ s[1] = "-" THEN 0 - DigitsVal(ds) ELSE DigitsVal(ds)]

\* decimal digits of n >= 0
RECURSIVE Decimal(_)
Decimal(n) == IF n < 10 THEN <<DigitChar(n)>> ELSE Decimal(n \div 10) \o <<DigitChar(n % 10)>>

\* a variant of the verb without the padding
Fmt02d_NoPad(n) == IF n < 0 THEN <<"-">> \o Decimal(0 - n) ELSE Decimal(n)

\* fmt verb %02d: the sign counts towards the width of 2
Fmt02d(n) ==
  IF n < 0 THEN <<"-">> \o Decimal(0 - n)
  ELSE IF n < 10 THEN <<"0">> \o Decimal(n) ELSE Decimal(n)

getImageURL(workout, day) ==
  With(Atoi(day), LAMBDA dayNum :
    IF dayNum.err THEN [err |-> TRUE, url |-> <<>>]
    ELSE [err |-> FALSE,
          url |-> ImagePrefix \o ToLower(workout) \o ImageMiddle \o Fmt02d(dayNum.n) \o ImageSuffix])

getVideoURL(name) == VideoPrefix \o name \o VideoSuffix

\* ------------------------------------------------------------------------
\* Video embed scraper: the regexp youtube\.com/embed/([^?]+)\? on a page body
\* ------------------------------------------------------------------------

\* the first submatch of the leftmost match, or <<>> when nothing matches
EmbedMatch(body) ==
  LET starts == {i \in 1..Len(body) :
                   /\ body[i] = EmbedLit
                   /\ i + 1 <= Len(body) /\ body[i + 1] # "?"
                   /\ \E j \in (i + 2)..Len(body) : body[j] = "?"}
  IN  IF starts = {} THEN <<>>
      ELSE LET i == CHOOSE x \in starts : \A y \in starts : x <= y
               j == CHOOSE x \in (i + 2)..Len(body) :
                      body[x] = "?" /\ \A y \in (i + 2)..(x - 1) : body[y] # "?"
           IN  SubSeq(body, i + 1, j - 1)

\* ------------------------------------------------------------------------
\* Go values
\* ------------------------------------------------------------------------

\* a Go slice of exercise: nil, or a (possibly empty) sequence
NilSlice == [isNil |-> TRUE, elems |-> <<>>]
MakeSlice(es) == [isNil |-> FALSE, elems |-> es]

\* a variant of append that puts the new element first
Append1_Prepend(s, e) == [isNil |-> FALSE, elems |-> <<e>> \o s.elems]

\* append(exercises, e)
Append1(s, e) == [isNil |-> FALSE, elems |-> s.elems \o <<e>>]

\* type exercise struct
exercise(name, embedURL) == [Name |-> name, EmbedURL |-> embedURL]

\* one thing a request did: a write to its response, an outgoing call or a log line
Item(t, a, b) == [t |-> t, a |-> a, b |-> b]

\* ------------------------------------------------------------------------
\* Key-value backend: encoding/json on []exercise
\* ------------------------------------------------------------------------

\* the JSON text of one string, as a sequence of units: a character that needs
\* escaping becomes one escape unit, a byte that is not valid UTF-8 becomes
\* the escape of U+FFFD
JsonQuoteChar(c) ==
  CASE c = "\"" -> "\\\""
    [] c = "\\" -> "\\\\"
    [] c = "<" -> "\\u003c"
    [] c = ">" -> "\\u003e"
    [] c = "&" -> "\\u0026"
    [] c = BadByte -> "\\ufffd"
    [] OTHER -> c

JsonUnquoteUnit(u) ==
  CASE u = "\\\"" -> "\""
    [] u = "\\\\" -> "\\"
    [] u = "\\u003c" -> "<"
    [] u = "\\u003e" -> ">"
    [] u = "\\u0026" -> "&"
    [] u = "\\ufffd" -> ReplChar
    [] OTHER -> u

JsonQuote(s) == [i \in 1..Len(s) |-> JsonQuoteChar(s[i])]
JsonUnquote(s) == [i \in 1..Len(s) |-> JsonUnquoteUnit(s[i])]

\* json.Marshal(exercises): a nil slice is the text null, any other an array
jsonMarshal(exs) ==
  IF exs.isNil THEN [null |-> TRUE, items |-> <<>>]
  ELSE [null  |-> FALSE,
        items |-> [i \in 1..Len(exs.elems) |->
                     [Name     |-> JsonQuote(exs.elems[i].Name),
                      EmbedURL |-> JsonQuote(exs.elems[i].EmbedURL)]]]

\* json.Unmarshal(val, &exercises) with exercises nil before: null leaves it nil
jsonUnmarshal(val) ==
  IF val.null THEN NilSlice
  ELSE MakeSlice([i \in 1..Len(val.items) |->
                    exercise(JsonUnquote(val.items[i].Name),
                             JsonUnquote(val.items[i].EmbedURL))])

\* a map from keys to values, as a function on the keys present
Put(m, k, v) == [x \in (DOMAIN m) \cup {k} |-> IF x = k THEN v ELSE m[x]]
Remove(m, k) == [x \in (DOMAIN m) \ {k} |-> m[x]]
EmptyMap == [x \in {} |-> 0]

\* the answer of a cache read or write: err is "" (none), "notfound" or "other"
Answer(err, exs) == [err |-> err, exs |-> exs]

\* key-value variant: mem.Get, then json.Unmarshal; fail: the call itself fails
getExercisesFromCacheMC(mem, imageURL, fail) ==
  IF fail THEN Answer("other", NilSlice)
  ELSE IF imageURL \notin DOMAIN mem THEN Answer("notfound", NilSlice)
  ELSE Answer("", jsonUnmarshal(mem[imageURL]))

\* key-value variant: json.Marshal, then mem.Set with the 7 day expiration;
\* the result is the new content of the store and the error
saveExercisesForImageToCacheMC(mem, imageURL, exercises, fail) ==
  IF fail THEN [store |-> mem, err |-> "other"]
  ELSE [store |-> Put(mem, imageURL, jsonMarshal(exercises)), err |-> ""]

\* ------------------------------------------------------------------------
\* Document-store backend
\* ------------------------------------------------------------------------

\* strings.NewReplacer("/", "_", ":", "_").Replace
getFirestoreName(original) ==
  [i \in 1..Len(original) |-> IF original[i] \in {"/", ":"} THEN "_" ELSE original[i]]

HasBadByte(s) == \E i \in 1..Len(s) : s[i] = BadByte

\* firestoreDoc{Exercises} as stored: omitempty leaves the field out when the
\* slice is nil or empty
firestoreDoc(exercises) ==
  IF Len(exercises.elems) = 0 THEN [has |-> FALSE, exercises |-> <<>>]
  ELSE [has |-> TRUE, exercises |-> exercises.elems]

\* rawDoc.DataTo(doc): a field that is absent leaves doc.Exercises nil
DataTo(stored) == IF stored.has THEN MakeSlice(stored.exercises) ELSE NilSlice

\* document-store variant: Doc(name).Get; fail: an error other than NotFound
getExercisesFromCacheFS(docs, imageURL, fail) ==
  LET name == getFirestoreName(imageURL)
  IN  IF fail THEN Answer("other", NilSlice)
      ELSE IF name \notin DOMAIN docs THEN Answer("notfound", NilSlice)
      ELSE Answer("", DataTo(docs[name]))

\* document-store variant: Doc(name).Set; a string that is not valid UTF-8
\* cannot be sent and the call fails
saveExercisesForImageToCacheFS(docs, imageURL, exercises, fail) ==
  IF fail \/ \E i \in 1..Len(exercises.elems) :
               HasBadByte(exercises.elems[i].Name) \/ HasBadByte(exercises.elems[i].EmbedURL)
  THEN [store |-> docs, err |-> "other"]
  ELSE [store |-> Put(docs, getFirestoreName(imageURL), firestoreDoc(exercises)), err |-> ""]

\* ------------------------------------------------------------------------
\* The response of one request
\* ------------------------------------------------------------------------

\* status and ctype are what the client receives; hdr is the Content-Type the
\* handler has set in the net/http header map and wrote says whether the
\* status line and headers are already fixed (net/http fixes them at the first
\* Write); body is what has been written, in order
NewResponse == [status |-> 200, ctype |-> "", hdr |-> "", wrote |-> FALSE, body |-> <<>>]

\* fmt.Fprintf(ctx, ...) on a fasthttp RequestCtx: appended to the buffered body
CtxWrite(resp, item) == [resp EXCEPT !.body = @ \o <<item>>]

\* ctx.Response.Header.Set("Content-Type", "text/html")
CtxSetContentType(resp) == [resp EXCEPT !.ctype = "text/html"]

\* the handler returns err: the fasthttp router answers with RequestCtx.Error,
\* which resets the response and sets status 500 and the error text
CtxError(resp, item) ==
  [status |-> 500, ctype |-> "text/plain", hdr |-> "", wrote |-> FALSE, body |-> <<item>>]

\* w.Header().Set("Content-Type", "text/html")
WHeaderSet(resp) == [resp EXCEPT !.hdr = "text/html"]

\* fmt.Fprintf(w, ...) on a net/http ResponseWriter: the first write sends
\* status 200 and the headers set so far
WWrite(resp, item) ==
  IF resp.wrote THEN [resp EXCEPT !.body = @ \o <<item>>]
  ELSE [resp EXCEPT !.wrote = TRUE, !.status = 200, !.ctype = resp.hdr,
                    !.body = @ \o <<item>>]

\* http.Error(w, msg, code): sets the header, calls WriteHeader(code), which is
\* ignored once the headers are fixed, and writes msg to the body
HttpError(resp, item, code) ==
  IF resp.wrote THEN [resp EXCEPT !.hdr = "text/plain", !.body = @ \o <<item>>]
  ELSE [resp EXCEPT !.hdr = "text/plain", !.wrote = TRUE, !.status = code,
                    !.ctype = "text/plain", !.body = @ \o <<item>>]

\* ------------------------------------------------------------------------
\* The handler, in its four variants
\* ------------------------------------------------------------------------

\* "earliest": PrintVideos of src/main.go:282, renders while it fetches
\* "nocache":  printVideos of src/main.go:129, never uses its cache client
\* "memcache": printVideos of src/unnamed/part_000:177
\* "firestore": printVideos of src/unnamed/part_001:175, net/http
Variants == {"earliest", "nocache", "memcache", "firestore"}
FastHTTP == {"earliest", "nocache", "memcache"}
Caching == {"memcache", "firestore"}

\* the exercise block of each variant's template
BlockKind(v) ==
  CASE v = "earliest" -> "blockLink"
    [] v = "firestore" -> "block19"
    [] OTHER -> "block20"

BlockKinds == {"blockLink", "block19", "block20"}

\* a request that has not started
Idle ==
  [v |-> "", pc |-> "idle", q |-> [workout |-> <<>>, day |-> <<>>], imageURL |-> <<>>,
   lines |-> <<>>, idx |-> 0, exercises |-> NilSlice, resp |-> NewResponse,
   trace |-> <<>>, out |-> "", answers |-> <<>>,
   atRead |-> FALSE, src |-> <<>>]

\* an answer of the outside world to the call of kind k
Ans(k, err, val) == [k |-> k, err |-> err, val |-> val]

Did(r, item) == [r EXCEPT !.trace = @ \o <<item>>]

\* log.Printf
Log(r, what) == Did(r, Item("log", <<what>>, <<>>))

\* a write to the response: fasthttp's ctx or net/http's w
Write(r, item) ==
  Did([r EXCEPT !.resp = IF r.v \in FastHTTP THEN CtxWrite(@, item) ELSE WWrite(@, item)], item)

\* return err (fasthttp variants); http.Error(w, err.Error(), 500) and return
ErrItem(kind) == Item("error", <<kind>>, <<>>)

Fail(r, kind) ==
  Did([r EXCEPT !.resp = IF r.v \in FastHTTP THEN CtxError(@, ErrItem(kind))
                         ELSE HttpError(@, ErrItem(kind), 500),
                !.pc = "done", !.out = "error"], ErrItem(kind))

\* return nil; the fasthttp variants set the content type last
Finish(r) ==
  [r EXCEPT !.resp = IF r.v \in FastHTTP THEN CtxSetContentType(@) ELSE @,
            !.pc = "done", !.out = "ok"]

\* one exercise block: heading and player, or heading and "Video not found"
WriteBlock(r, e) == Write(r, Item(BlockKind(r.v), e.Name, e.EmbedURL))

\* for _, exercise := range exercises { ... }
RECURSIVE RenderFrom(_, _)
RenderFrom(r, i) ==
  IF i > Len(r.exercises.elems) THEN r
  ELSE With(WriteBlock(r, r.exercises.elems[i]), LAMBDA r1 : RenderFrom(r1, i + 1))

Render(r) == RenderFrom(r, 1)

\* a variant of the loop that takes every line, accepted or not
NextAccepted_AnyLine(lines, idx) == IF idx + 1 <= Len(lines) THEN idx + 1 ELSE 0

\* the next line after idx that the Normalizer accepts, 0 when there is none
NextAccepted(lines, idx) ==
  With({j \in (idx + 1)..Len(lines) : getVideoName(lines[j]) # <<>>}, LAMBDA js :
    IF js = {} THEN 0 ELSE CHOOSE j \in js : \A k \in js : j <= k)

\* the lines the Normalizer accepts, in order
AcceptedLines(lines) == SelectSeq(lines, LAMBDA l : getVideoName(l) # <<>>)

\* the loop over the lines has ended
LoopEnd(r) ==
  CASE r.v = "earliest" -> Finish(r)
    [] r.v = "nocache" -> With(Render(r), LAMBDA r1 : Finish(r1))
    [] OTHER -> [r EXCEPT !.pc = "set"]

\* for _, line := range lines: run to the next embed-page fetch
Loop(r) ==
  With(NextAccepted(r.lines, r.idx), LAMBDA j :
    IF j = 0 THEN LoopEnd(r) ELSE [r EXCEPT !.idx = j, !.pc = "fetch"])

\* detectText has answered
getExercisesForImage(r, a) ==
  With(Did(r, Item("ocr", r.imageURL, <<>>)), LAMBDA r1 :
    IF a.err # "" THEN Fail(r1, "ocr")
    ELSE With([r1 EXCEPT !.lines = Split(a.val), !.idx = 0, !.exercises = NilSlice],
              LAMBDA r2 : Loop(r2)))

\* a variant of the pipeline that goes on to the cache write with the
\* exercises gathered so far when a fetch fails
AfterFetch_SavePartial(r, a) ==
  With(Did(r, Item("fetch", getVideoURL(getVideoName(r.lines[r.idx])), <<>>)), LAMBDA r1 :
    IF a.err # "" THEN [r1 EXCEPT !.pc = "set"]
    ELSE With(exercise(r.lines[r.idx], EmbedMatch(a.val)), LAMBDA e :
           With(IF r.v = "earliest" THEN WriteBlock(r1, e)
                ELSE [r1 EXCEPT !.exercises = Append1(@, e)],
                LAMBDA r2 : Loop(r2))))

\* getYoutubeEmbed has answered for the line at idx
AfterFetch(r, a) ==
  With(Did(r, Item("fetch", getVideoURL(getVideoName(r.lines[r.idx])), <<>>)), LAMBDA r1 :
    IF a.err # "" THEN Fail([r1 EXCEPT !.exercises = NilSlice], "fetch")
    ELSE With(exercise(r.lines[r.idx], EmbedMatch(a.val)), LAMBDA e :
           With(IF r.v = "earliest" THEN WriteBlock(r1, e)
                ELSE [r1 EXCEPT !.exercises = Append1(@, e)],
                LAMBDA r2 : Loop(r2))))

\* a variant of the handler that fails the request when the cache read fails
AfterCacheRead_FailOnError(r, a) ==
  With(Did(r, Item("get", r.imageURL, <<>>)), LAMBDA r1 :
    IF a.err \notin {"", "notfound"} THEN Fail(r1, "cache")
    ELSE With([r1 EXCEPT !.exercises = a.val], LAMBDA r3 :
           IF r3.exercises.isNil THEN [Log(r3, "cache miss") EXCEPT !.pc = "ocr"]
           ELSE With(Render(r3), LAMBDA r4 : Finish(r4))))

\* getExercisesFromCache has answered
AfterCacheRead(r, a) ==
  With(Did(r, Item("get", r.imageURL, <<>>)), LAMBDA r1 :
    With(IF a.err \notin {"", "notfound"} THEN Log(r1, "cache read error") ELSE r1, LAMBDA r2 :
      With([r2 EXCEPT !.exercises = a.val], LAMBDA r3 :
        IF r3.exercises.isNil THEN [Log(r3, "cache miss") EXCEPT !.pc = "ocr"]
        ELSE With(Render(r3), LAMBDA r4 : Finish(r4)))))

\* a variant of the handler that fails the request when the cache write fails
AfterCacheWrite_FailOnError(r, a) ==
  With(Did(r, Item("set", r.imageURL, <<>>)), LAMBDA r1 :
    IF a.err # "" THEN Fail(r1, "cache")
    ELSE With(Render(r1), LAMBDA r3 : Finish(r3)))

\* saveExercisesForImageToCache has answered
AfterCacheWrite(r, a) ==
  With(Did(r, Item("set", r.imageURL, <<>>)), LAMBDA r1 :
    With(IF a.err # "" THEN Log(r1, "cache write error") ELSE r1, LAMBDA r2 :
      With(Render(r2), LAMBDA r3 : Finish(r3))))

\* parseQueryParam: q maps a name to the list of its values, empty when absent
parseQueryParam(q, name) ==
  LET raw == q[name]
  IN  IF Len(raw) = 0 THEN [err |-> TRUE, val |-> <<>>]
      ELSE IF Len(raw) # 1 THEN [err |-> TRUE, val |-> <<>>]
      ELSE [err |-> FALSE, val |-> raw[1]]

ImgItem(url) == Item("img", url, <<>>)

\* PrintVideos up to its first outgoing call: the image tag is written before
\* the error of getImageUrl is looked at
PrintVideosEntry(r) ==
  With(getImageURL(r.q.workout[1], r.q.day[1]), LAMBDA res :
    With(Write(r, ImgItem(res.url)), LAMBDA r1 :
      IF res.err THEN Fail(r1, "atoi")
      ELSE [r1 EXCEPT !.imageURL = res.url, !.pc = "ocr"]))

\* a variant of printVideos that leaves the image tag out
printVideosEntry_NoImage(r) ==
  With(getImageURL(r.q.workout[1], r.q.day[1]), LAMBDA res :
    IF res.err THEN Fail(r, "atoi")
    ELSE [r EXCEPT !.imageURL = res.url,
                   !.pc = IF r.v = "memcache" THEN "get" ELSE "ocr"])

\* printVideos of the two later fasthttp variants up to its first outgoing call
printVideosEntry(r) ==
  With(getImageURL(r.q.workout[1], r.q.day[1]), LAMBDA res :
    IF res.err THEN Fail(r, "atoi")
    ELSE [Write(r, ImgItem(res.url)) EXCEPT
            !.imageURL = res.url,
            !.pc = IF r.v = "memcache" THEN "get" ELSE "ocr"])

\* printVideos of the net/http variant up to its first outgoing call
printVideosEntryHTTP(r) ==
  With(parseQueryParam(r.q, "workout"), LAMBDA workout :
    IF workout.err THEN Fail(r, "param")
    ELSE With(parseQueryParam(r.q, "day"), LAMBDA day :
      IF day.err THEN Fail(r, "param")
      ELSE With(getImageURL(workout.val, day.val), LAMBDA res :
        IF res.err THEN Fail(r, "atoi")
        ELSE [Write([r EXCEPT !.resp = WHeaderSet(@)], ImgItem(res.url)) EXCEPT
                !.imageURL = res.url, !.pc = "get"])))

\* a request arrives: log.Printf("GET ..."), then the variant's handler
Entry(v, q) ==
  With(Log([Idle EXCEPT !.v = v, !.q = q, !.pc = "entry"], "GET"), LAMBDA r :
    CASE v = "earliest" -> PrintVideosEntry(r)
      [] v = "firestore" -> printVideosEntryHTTP(r)
      [] OTHER -> printVideosEntry(r))

\* the handler's reaction to the answer a of its pending call; ghost fields
\* are left alone
Step(r, a) ==
  With([r EXCEPT !.answers = @ \o <<a>>], LAMBDA r1 :
    CASE r.pc = "get" /\ a.k = "get" -> AfterCacheRead(r1, a)
      [] r.pc = "ocr" /\ a.k = "ocr" -> getExercisesForImage(r1, a)
      [] r.pc = "fetch" /\ a.k = "fetch" -> AfterFetch(r1, a)
      [] r.pc = "set" /\ a.k = "set" -> AfterCacheWrite(r1, a)
      [] OTHER -> [r1 EXCEPT !.pc = "stuck"])

\* ------------------------------------------------------------------------
\* Inputs and the answers of the outside world
\* ------------------------------------------------------------------------

\* OCR lines: two exercise lines and a header line
LineSet == {<<"2", " ", "k">>, <<"3", " ", "j", " ", "J">>, <<"D", "a", "y">>}

RECURSIVE JoinLines(_)
JoinLines(ls) ==
  IF ls = <<>> THEN <<>>
  ELSE IF Len(ls) = 1 THEN ls[1]
  ELSE ls[1] \o <<"\n">> \o JoinLines(Tail(ls))

\* the texts detectText can return
Texts == {JoinLines(ls) : ls \in UNION {[1..n -> LineSet] : n \in 0..MaxLines}}

\* the page bodies an embed-page fetch can return: one without an embed
\* reference and one with
Bodies == {<<"<", "p", ">">>,
           <<"<", EmbedLit, "Z", "Q", "?", "r", ">">>}

OcrAnswers == {Ans("ocr", "failed", <<>>)} \cup {Ans("ocr", "", t) : t \in Texts}
FetchAnswers == {Ans("fetch", "failed", <<>>)} \cup {Ans("fetch", "", b) : b \in Bodies}

WorkoutValues == {<<"f">>}
DayValues == {<<"3">>, <<"0", "3">>, <<"x">>}

\* the path variants always get one value for each of workout and day; the
\* query-parameter variant can get none or several
Queries(v) ==
  IF v = "firestore"
  THEN {[workout |-> w, day |-> d] :
          w \in {<<>>} \cup {<<x>> : x \in WorkoutValues} \cup {<<x, x>> : x \in WorkoutValues},
          d \in {<<>>} \cup {<<x>> : x \in DayValues} \cup {<<x, x>> : x \in DayValues}}
  ELSE {[workout |-> <<w>>, day |-> <<d>>] : w \in WorkoutValues, d \in DayValues}

\* ------------------------------------------------------------------------
\* Serverless platform adapter: the logging context and its batches
\* ------------------------------------------------------------------------

\* c.queue = make(chan *logBatch, 5)
QueueCap == 5

\* the limits of one batch, scaled down: entries and cumulative payload length
maxLogBatchEntries == 2
maxLogBatchLength == 3

\* &logBatch{ready: make(chan struct{})}: no entries, ready not closed
NewBatch == [Entries |-> <<>>, payloadLength |-> 0, ready |-> FALSE]

\* &logEntry{...}; Time is the process clock at the write, by is the request
\* whose handler made the write
logEntry(text, severity, time, execID, by) ==
  [TextPayload |-> text, Severity |-> severity, Time |-> time,
   ExecutionID |-> execID, by |-> by]

\* an addEntry that puts the entry at the front
batchAddEntry_Prepend(b, entry) ==
  [Entries       |-> <<entry>> \o b.Entries,
   payloadLength |-> b.payloadLength + Len(entry.TextPayload),
   ready         |-> TRUE]

\* an addEntry that leaves ready to whoever replaces the batch
batchAddEntry_NoReady(b, entry) ==
  [Entries       |-> b.Entries \o <<entry>>,
   payloadLength |-> b.payloadLength + Len(entry.TextPayload),
   ready         |-> b.ready]

\* (b *logBatch) addEntry: the first entry closes ready
batchAddEntry(b, entry) ==
  [Entries       |-> b.Entries \o <<entry>>,
   payloadLength |-> b.payloadLength + Len(entry.TextPayload),
   ready         |-> TRUE]

\* the logging context and the batches it has made, by number
NewLogging(configured) ==
  [configured   |-> configured,
   execID       |-> "",
   queue        |-> <<>>,
   currentBatch |-> 0,
   queueMutex   |-> "",
   batches      |-> <<>>]

\* startNewBatch when the queue has room: a fresh batch becomes current and
\* is sent on the queue
startNewBatch(c) ==
  [c EXCEPT !.batches = @ \o <<NewBatch>>,
            !.currentBatch = Len(c.batches) + 1,
            !.queue = @ \o <<Len(c.batches) + 1>>]

\* c.queue <- batch would block
QueueFull(c) == Len(c.queue) >= QueueCap

\* initialize, called by init when the supervisor address is configured
initialize(c) == startNewBatch(c)

setExecutionID(c, id) == [c EXCEPT !.execID = id]

executionID(c) == c.execID

\* an addEntry that looks at the number of entries only
WouldOverflow_EntriesOnly(c, entry) ==
  LET b == c.batches[c.currentBatch]
  IN  /\ Len(b.Entries) > 0
      /\ Len(b.Entries) + 1 > maxLogBatchEntries

\* the current batch cannot take entry
WouldOverflow(c, entry) ==
  LET b == c.batches[c.currentBatch]
  IN  /\ Len(b.Entries) > 0
      /\ \/ Len(b.Entries) + 1 > maxLogBatchEntries
         \/ b.payloadLength + Len(entry.TextPayload) > maxLogBatchLength

\* the append at the end of (c *loggingContext) addEntry
AppendToCurrent(c, entry) ==
  [c EXCEPT !.batches[c.currentBatch] = batchAddEntry(@, entry)]

\* (c *loggingContext) addEntry with the mutex free and room in the queue
addEntry(c, entry) ==
  IF WouldOverflow(c, entry) THEN AppendToCurrent(startNewBatch(c), entry)
  ELSE AppendToCurrent(c, entry)

\* the outcomes of postToSupervisor: nil, a transport error, the timeout, a
\* response code outside 200..299
PostOutcomes == {"", "error", "timeout", "code"}

\* one POST to the supervisor: path, the batch sent (0: none), the entries
\* serialized into the body, the error
Post(path, batch, payload, err) ==
  [path |-> path, batch |-> batch, payload |-> payload, err |-> err]

\* ------------------------------------------------------------------------
\* State
\* ------------------------------------------------------------------------

Reqs == {"r1"}

VARIABLES
  variant,    \* the handler variant this deployment runs
  req,        \* the requests
  memcache,   \* key-value store: image URL -> JSON value
  firestore,  \* document store: document name -> document
  lastSet,    \* ghost: for each cache entry, the accepted OCR lines it was computed from
  probe,      \* the direct cache calls of SpecCache: what was saved, what a read returned
  call,       \* the last direct call of a pure function (SpecPure): name, arguments, result
  loggingCtx, \* the platform adapter's logging context, with the batches it has made
  handlers,   \* the requests passing through the logging middleware
  worker,     \* the relay worker started by initialize
  process     \* the process: exit, the POSTs made to the supervisor, console output

appvars == <<variant, req, memcache, firestore, lastSet, probe, call>>
logvars == <<loggingCtx, handlers, worker, process>>
vars == <<appvars, logvars>>

\* the requests that pass through the middleware, one goroutine each, and
\* their Function-Execution-Id
LogReqs == {"h1", "h2"}
ExecIdOf(h) == IF h = "h1" THEN "e1" ELSE "e2"

IdleHandler == [pc |-> "idle", entry |-> <<>>, ended |-> ""]

\* the adapter at process start, with the supervisor address configured or not
LogInit(configured) ==
  /\ loggingCtx = IF configured THEN initialize(NewLogging(TRUE)) ELSE NewLogging(FALSE)
  /\ handlers = [h \in LogReqs |-> IdleHandler]
  /\ worker = [pc |-> IF configured THEN "recv" ELSE "off", batch |-> 0]
  /\ process = [exited |-> FALSE, code |-> 0, posts |-> <<>>, console |-> <<>>,
                writes |-> 0, accepted |-> <<>>]

NoProbe == [saved |-> EmptyMap, got |-> <<>>]
NoCall == [fn |-> "", arg |-> <<>>, res |-> <<>>]

Init ==
  /\ variant \in Variants
  /\ req = [i \in Reqs |-> Idle]
  /\ memcache = EmptyMap
  /\ firestore = EmptyMap
  /\ lastSet = EmptyMap
  /\ probe = NoProbe
  /\ call = NoCall
  /\ LogInit(FALSE)

\* the cache entry a request reads and writes
CacheKey(r) == IF r.v = "memcache" THEN r.imageURL ELSE getFirestoreName(r.imageURL)

Store == IF variant = "memcache" THEN memcache ELSE firestore

\* a request arrives and runs up to its first outgoing call
Request(i) ==
  /\ req[i].pc \in {"idle", "done"}
  /\ \E q \in Queries(variant) : req' = [req EXCEPT ![i] = Entry(variant, q)]
  /\ UNCHANGED <<variant, memcache, firestore, lastSet, probe, call, logvars>>

\* getExercisesFromCache returns
CacheRead(i) ==
  /\ req[i].pc = "get"
  /\ \E fail \in BOOLEAN :
       LET r == req[i]
       IN  \E got \in {IF r.v = "memcache"
                        THEN getExercisesFromCacheMC(memcache, r.imageURL, fail)
                        ELSE getExercisesFromCacheFS(firestore, r.imageURL, fail)} :
             req' = [req EXCEPT ![i] =
                       [Step(r, Ans("get", got.err, got.exs)) EXCEPT
                          !.atRead = CacheKey(r) \in DOMAIN Store,
                          !.src = IF got.err = "" THEN lastSet[CacheKey(r)] ELSE <<>>]]
  /\ UNCHANGED <<variant, memcache, firestore, lastSet, probe, call, logvars>>

\* detectText returns
DetectText(i) ==
  /\ req[i].pc = "ocr"
  /\ \E a \in OcrAnswers : req' = [req EXCEPT ![i] = Step(req[i], a)]
  /\ UNCHANGED <<variant, memcache, firestore, lastSet, probe, call, logvars>>

\* getYoutubeEmbed returns
FetchPage(i) ==
  /\ req[i].pc = "fetch"
  /\ \E a \in FetchAnswers : req' = [req EXCEPT ![i] = Step(req[i], a)]
  /\ UNCHANGED <<variant, memcache, firestore, lastSet, probe, call, logvars>>

\* saveExercisesForImageToCache returns
CacheWrite(i) ==
  /\ req[i].pc = "set"
  /\ \E fail \in BOOLEAN :
       LET r == req[i]
       IN  \E res \in {IF r.v = "memcache"
                        THEN saveExercisesForImageToCacheMC(memcache, r.imageURL, r.exercises, fail)
                        ELSE saveExercisesForImageToCacheFS(firestore, r.imageURL, r.exercises, fail)} :
             /\ req' = [req EXCEPT ![i] = Step(r, Ans("set", res.err, <<>>))]
             /\ memcache' = IF r.v = "memcache" THEN res.store ELSE memcache
             /\ firestore' = IF r.v = "firestore" THEN res.store ELSE firestore
             /\ lastSet' = IF res.err = "" THEN Put(lastSet, CacheKey(r), AcceptedLines(r.lines))
                          ELSE lastSet
  /\ UNCHANGED <<variant, probe, call, logvars>>

\* an entry of the key-value store reaches its expiration and is dropped
Expire ==
  /\ \E k \in DOMAIN memcache :
       /\ memcache' = Remove(memcache, k)
       /\ lastSet' = Remove(lastSet, k)
  /\ UNCHANGED <<variant, req, firestore, probe, call, logvars>>

Next ==
  \/ \E i \in Reqs : Request(i)
  \/ \E i \in Reqs : CacheRead(i)
  \/ \E i \in Reqs : DetectText(i)
  \/ \E i \in Reqs : FetchPage(i)
  \/ \E i \in Reqs : CacheWrite(i)
  \/ Expire

Spec == Init /\ [][Next]_vars

\* ------------------------------------------------------------------------
\* The two cache operations called directly (SpecCache)
\* ------------------------------------------------------------------------

\* longest exercise sequence saved directly
MaxSeq == 2

\* exercises to save: plain text, text that JSON escapes, an embed identifier
\* holding a byte that is not valid UTF-8
ExerciseSet ==
  {exercise(<<"2", " ", "k">>, <<>>),
   exercise(<<"2", " ", "<", "\"">>, <<"Z", "Q">>),
   exercise(<<"3", " ", "j">>, <<"Z", BadByte>>)}

\* the sequences to save: nil, and every sequence of up to MaxSeq exercises
SliceSet == {NilSlice} \cup {MakeSlice(es) : es \in UNION {[1..n -> ExerciseSet] : n \in 0..MaxSeq}}

KeySet == {getImageURL(<<"f">>, <<"3">>).url, getImageURL(<<"f">>, <<"4">>).url}

BackendKey(k) == IF variant = "memcache" THEN k ELSE getFirestoreName(k)

InitCache ==
  /\ variant \in Caching
  /\ req = [i \in Reqs |-> Idle]
  /\ memcache = EmptyMap
  /\ firestore = EmptyMap
  /\ lastSet = EmptyMap
  /\ probe = NoProbe
  /\ call = NoCall
  /\ LogInit(FALSE)

\* saveExercisesForImageToCache(k, s); a write that succeeds is remembered
Save(k, s, fail) ==
  /\ \E res \in {IF variant = "memcache"
                 THEN saveExercisesForImageToCacheMC(memcache, k, s, fail)
                 ELSE saveExercisesForImageToCacheFS(firestore, k, s, fail)} :
       /\ memcache' = IF variant = "memcache" THEN res.store ELSE memcache
       /\ firestore' = IF variant = "firestore" THEN res.store ELSE firestore
       /\ probe' = [saved |-> IF res.err = "" THEN Put(probe.saved, BackendKey(k), s)
                              ELSE probe.saved,
                    got   |-> <<>>]
  /\ UNCHANGED <<variant, req, lastSet, call, logvars>>

\* getExercisesFromCache(k); the answer is remembered
Load(k, fail) ==
  /\ \E got \in {IF variant = "memcache"
                 THEN getExercisesFromCacheMC(memcache, k, fail)
                 ELSE getExercisesFromCacheFS(firestore, k, fail)} :
       probe' = [probe EXCEPT !.got = <<[key |-> BackendKey(k), fail |-> fail, ans |-> got]>>]
  /\ UNCHANGED <<variant, req, memcache, firestore, lastSet, call, logvars>>

\* an entry of the key-value store reaches its expiration
ExpireSaved ==
  /\ \E k \in DOMAIN memcache :
       /\ memcache' = Remove(memcache, k)
       /\ probe' = [saved |-> Remove(probe.saved, k), got |-> <<>>]
  /\ UNCHANGED <<variant, req, firestore, lastSet, call, logvars>>

NextCache ==
  \/ \E k \in KeySet, s \in SliceSet, fail \in BOOLEAN : Save(k, s, fail)
  \/ \E k \in KeySet, fail \in BOOLEAN : Load(k, fail)
  \/ ExpireSaved

SpecCache == InitCache /\ [][NextCache]_vars

\* ------------------------------------------------------------------------
\* Requests served concurrently by one process (SpecConc)
\* ------------------------------------------------------------------------

ConcReqs == {"r1", "r2"}

\* the texts detectText returns to the concurrent requests: two exercise
\* lines, or a header line alone
ConcTexts == {JoinLines(<<<<"2", " ", "k">>, <<"3", " ", "j", " ", "J">>>>), <<"D", "a", "y">>}

ConcOcrAnswers == {Ans("ocr", "failed", <<>>)} \cup {Ans("ocr", "", t) : t \in ConcTexts}

\* the embed-page fetch fails or returns a page with an embed reference
ConcFetchAnswers ==
  {Ans("fetch", "failed", <<>>), Ans("fetch", "", <<"<", EmbedLit, "Z", "Q", "?", "r", ">">>)}

\* two images; the path variable or the query parameter, one value each
ConcQueries == {[workout |-> <<<<"f">>>>, day |-> <<d>>] : d \in {<<"3">>, <<"4">>}}

InitConc ==
  /\ variant \in Caching
  /\ req = [i \in ConcReqs |-> Idle]
  /\ memcache = EmptyMap
  /\ firestore = EmptyMap
  /\ lastSet = EmptyMap
  /\ probe = NoProbe
  /\ call = NoCall
  /\ LogInit(FALSE)

\* a request arrives while others may be in flight
ConcRequest(i) ==
  /\ req[i].pc \in {"idle", "done"}
  /\ \E q \in ConcQueries : req' = [req EXCEPT ![i] = Entry(variant, q)]
  /\ UNCHANGED <<variant, memcache, firestore, lastSet, probe, call, logvars>>

\* detectText returns to one of the requests
ConcDetectText(i) ==
  /\ req[i].pc = "ocr"
  /\ \E a \in ConcOcrAnswers : req' = [req EXCEPT ![i] = Step(req[i], a)]
  /\ UNCHANGED <<variant, memcache, firestore, lastSet, probe, call, logvars>>

\* getYoutubeEmbed returns to one of the requests
ConcFetchPage(i) ==
  /\ req[i].pc = "fetch"
  /\ \E a \in ConcFetchAnswers : req' = [req EXCEPT ![i] = Step(req[i], a)]
  /\ UNCHANGED <<variant, memcache, firestore, lastSet, probe, call, logvars>>

NextConc ==
  \/ \E i \in ConcReqs : ConcRequest(i)
  \/ \E i \in ConcReqs : CacheRead(i)
  \/ \E i \in ConcReqs : ConcDetectText(i)
  \/ \E i \in ConcReqs : ConcFetchPage(i)
  \/ \E i \in ConcReqs : CacheWrite(i)
  \/ Expire

SpecConc == InitConc /\ [][NextConc]_vars

\* ------------------------------------------------------------------------
\* Two requests of the document-store variant for different programs (SpecKeys)
\* ------------------------------------------------------------------------

\* workout parameters that differ only in '/', ':' and '_'
KeyWorkouts == {<<"f", "/", "g">>, <<"f", ":", "g">>, <<"f", "_", "g">>}

KeyQueries == {[workout |-> <<w>>, day |-> <<<<"3">>>>] : w \in KeyWorkouts}

InitKeys ==
  /\ variant = "firestore"
  /\ req = [i \in ConcReqs |-> Idle]
  /\ memcache = EmptyMap
  /\ firestore = EmptyMap
  /\ lastSet = EmptyMap
  /\ probe = NoProbe
  /\ call = NoCall
  /\ LogInit(FALSE)

\* each of the two requests arrives once
KeyRequest(i) ==
  /\ req[i].pc = "idle"
  /\ \E q \in KeyQueries : req' = [req EXCEPT ![i] = Entry(variant, q)]
  /\ UNCHANGED <<variant, memcache, firestore, lastSet, probe, call, logvars>>

NextKeys ==
  \/ \E i \in ConcReqs : KeyRequest(i)
  \/ \E i \in ConcReqs : CacheRead(i)
  \/ \E i \in ConcReqs : ConcDetectText(i)
  \/ \E i \in ConcReqs : ConcFetchPage(i)
  \/ \E i \in ConcReqs : CacheWrite(i)

SpecKeys == InitKeys /\ [][NextKeys]_vars

\* ------------------------------------------------------------------------
\* The pure functions called directly (SpecPure)
\* ------------------------------------------------------------------------

\* longest line, in tokens
MaxTokens == 3

\* longest day string, in characters
MaxDayLen == 3

\* longest page body, in elements
MaxBodyLen == 4

\* all sequences of up to n elements of S
SeqsUpTo(S, n) == UNION {[1..m -> S] : m \in 0..n}

RECURSIVE Flatten(_)
Flatten(ss) == IF ss = <<>> THEN <<>> ELSE Head(ss) \o Flatten(Tail(ss))

\* pieces of OCR lines: counts, whitespace, words in both cases, punctuation,
\* the words of the special cases
LineTokens ==
  {<<"2">>, <<" ">>, <<"\t">>, <<"k">>, <<"J">>, <<"-">>, <<"!">>, <<"_">>,
   <<"B", "e", "t", "w", "e", "e", "n">>,
   <<"l", "u", "n", "g", "e", "s">>,
   <<"a", "l", "t", " ", "a", "r", "m", " ", "l", "e", "g", " ", "r", "a", "i", "s", "e", "s">>}

\* lines: no line holds a newline, the text is split on it
PureLines == {Flatten(ts) : ts \in SeqsUpTo(LineTokens, MaxTokens)}

PurePrograms == {<<"f">>, <<"F", "b">>}

DayChars == {"0", "1", "3", "-", "+", "x"}

PureDays == SeqsUpTo(DayChars, MaxDayLen)

\* elements of page bodies
BodyElems == {EmbedLit, "Z", "?", "/", "\"", " ", "<"}

PureBodies == SeqsUpTo(BodyElems, MaxBodyLen)

\* each behaviour makes one call
InitPure ==
  /\ variant = "nocache"
  /\ req = [i \in Reqs |-> Idle]
  /\ memcache = EmptyMap
  /\ firestore = EmptyMap
  /\ lastSet = EmptyMap
  /\ probe = NoProbe
  /\ call = NoCall
  /\ LogInit(FALSE)

CallGetVideoName ==
  /\ call = NoCall
  /\ \E line \in PureLines :
       call' = [fn |-> "getVideoName", arg |-> <<line>>, res |-> getVideoName(line)]
  /\ UNCHANGED <<variant, req, memcache, firestore, lastSet, probe, logvars>>

CallGetImageURL ==
  /\ call = NoCall
  /\ \E workout \in PurePrograms, day \in PureDays :
       call' = [fn |-> "getImageURL", arg |-> <<workout, day>>, res |-> getImageURL(workout, day)]
  /\ UNCHANGED <<variant, req, memcache, firestore, lastSet, probe, logvars>>

\* getYoutubeEmbed on a page that was fetched and read without error
CallGetYoutubeEmbed ==
  /\ call = NoCall
  /\ \E body \in PureBodies :
       call' = [fn |-> "getYoutubeEmbed", arg |-> <<body>>, res |-> EmbedMatch(body)]
  /\ UNCHANGED <<variant, req, memcache, firestore, lastSet, probe, logvars>>

NextPure == CallGetVideoName \/ CallGetImageURL \/ CallGetYoutubeEmbed

SpecPure == InitPure /\ [][NextPure]_vars

\* ------------------------------------------------------------------------
\* The platform adapter at work: middleware, log writes, relay worker (SpecLog)
\* ------------------------------------------------------------------------

\* log writes made in one behaviour
MaxWrites == 2

\* what the handlers write, text and logger: the first request logs short
\* lines through InfoLogger, the second longer ones through ErrorLogger
LogWrites(h) ==
  IF h = "h1" THEN {[text |-> <<"a">>, severity |-> "INFO"]}
  ELSE {[text |-> <<"b", "c">>, severity |-> "ERROR"]}

InitLog ==
  /\ variant = "firestore"
  /\ req = [i \in Reqs |-> Idle]
  /\ memcache = EmptyMap
  /\ firestore = EmptyMap
  /\ lastSet = EmptyMap
  /\ probe = NoProbe
  /\ call = NoCall
  /\ \E configured \in BOOLEAN : LogInit(configured)

\* loggerMiddleware: setExecutionID(r.Header.Get("Function-Execution-Id")),
\* then the wrapped handler starts
MwEnter(h) ==
  /\ ~process.exited
  /\ handlers[h].pc = "idle"
  /\ loggingCtx' = setExecutionID(loggingCtx, ExecIdOf(h))
  /\ handlers' = [handlers EXCEPT ![h] = [IdleHandler EXCEPT !.pc = "handling"]]
  /\ UNCHANGED <<appvars, worker, process>>

\* supervisorWriter.Write, first half: the entry is built, with the
\* execution identifier read from the context
WriteBuildOf(h, writes, max) ==
  /\ ~process.exited
  /\ handlers[h].pc = "handling"
  /\ process.writes < max
  /\ \E w \in writes :
       handlers' = [handlers EXCEPT ![h].pc = "adding",
                      ![h].entry = <<logEntry(w.text, w.severity, process.writes + 1,
                                              executionID(loggingCtx), h)>>]
  /\ process' = [process EXCEPT !.writes = @ + 1]
  /\ UNCHANGED <<appvars, loggingCtx, worker>>

WriteBuild(h) == WriteBuildOf(h, LogWrites(h), MaxWrites)

\* supervisorWriter.Write, second half: addEntry, or the console when the
\* context has no queue.  A writer that must start a batch while the queue is
\* full stays in the send, holding the mutex.
WriteAdd(h) ==
  /\ ~process.exited
  /\ handlers[h].pc = "adding"
  /\ LET entry == handlers[h].entry[1]
     IN  IF ~loggingCtx.configured
         THEN /\ process' = [process EXCEPT !.console = @ \o <<entry>>]
              /\ handlers' = [handlers EXCEPT ![h].pc = "handling", ![h].entry = <<>>]
              /\ UNCHANGED loggingCtx
         ELSE /\ loggingCtx.queueMutex = ""
              /\ IF WouldOverflow(loggingCtx, entry) /\ QueueFull(loggingCtx)
                 THEN /\ loggingCtx' = [loggingCtx EXCEPT !.queueMutex = h]
                      /\ handlers' = [handlers EXCEPT ![h].pc = "send"]
                      /\ UNCHANGED process
                 ELSE /\ loggingCtx' = addEntry(loggingCtx, entry)
                      /\ handlers' = [handlers EXCEPT ![h].pc = "handling", ![h].entry = <<>>]
                      /\ process' = [process EXCEPT !.accepted = @ \o <<entry>>]
  /\ UNCHANGED <<appvars, worker>>

\* the send of a writer's new batch completes once the worker has taken a
\* batch off the queue; addEntry then appends, returns and unlocks
WriteSendDone(h) ==
  /\ ~process.exited
  /\ handlers[h].pc = "send"
  /\ loggingCtx.queueMutex = h
  /\ ~QueueFull(loggingCtx)
  /\ LET entry == handlers[h].entry[1]
     IN  /\ loggingCtx' = [AppendToCurrent(startNewBatch(loggingCtx), entry)
                             EXCEPT !.queueMutex = ""]
         /\ process' = [process EXCEPT !.accepted = @ \o <<entry>>]
  /\ handlers' = [handlers EXCEPT ![h].pc = "handling", ![h].entry = <<>>]
  /\ UNCHANGED <<appvars, worker>>

\* the wrapped handler ends: it returns, or it panics
HandlerEnd(h) ==
  /\ ~process.exited
  /\ handlers[h].pc = "handling"
  /\ \E how \in {"return", "panic"} :
       handlers' = [handlers EXCEPT ![h].pc = "deferred", ![h].ended = how]
  /\ UNCHANGED <<appvars, loggingCtx, worker, process>>

\* a middleware that resets after ServeHTTP without defer: a panic skips it
deferredReset_ReturnOnly(c, ended) ==
  IF ended = "panic" THEN c ELSE setExecutionID(c, "")

\* defer setExecutionID(""): runs however the handler ended
deferredReset(c, ended) == setExecutionID(c, "")

\* the deferred setExecutionID(""); the request is over
MwDefer(h) ==
  /\ ~process.exited
  /\ handlers[h].pc = "deferred"
  /\ loggingCtx' = deferredReset(loggingCtx, handlers[h].ended)
  /\ handlers' = [handlers EXCEPT ![h].pc = "done"]
  /\ UNCHANGED <<appvars, worker, process>>

\* startReportWorker: for logBatch := range c.queue
WorkerRecv ==
  /\ ~process.exited
  /\ worker.pc = "recv"
  /\ loggingCtx.queue # <<>>
  /\ worker' = [pc |-> "wait", batch |-> Head(loggingCtx.queue)]
  /\ loggingCtx' = [loggingCtx EXCEPT !.queue = Tail(@)]
  /\ UNCHANGED <<appvars, handlers, process>>

\* <-logBatch.ready
WorkerReady ==
  /\ ~process.exited
  /\ worker.pc = "wait"
  /\ loggingCtx.batches[worker.batch].ready
  /\ worker' = [worker EXCEPT !.pc = "lock"]
  /\ UNCHANGED <<appvars, loggingCtx, handlers, process>>

\* a worker that relays its batch without looking at the current one
isCurrent_Never(c, b) == FALSE

\* if logBatch == c.currentBatch
isCurrent(c, b) == b = c.currentBatch

\* the worker's critical section: a batch that is still current is replaced.
\* With the queue full the worker stays in the send, holding the mutex.
WorkerReplace ==
  /\ ~process.exited
  /\ worker.pc = "lock"
  /\ loggingCtx.queueMutex = ""
  /\ IF ~isCurrent(loggingCtx, worker.batch)
     THEN /\ worker' = [worker EXCEPT !.pc = "report"]
          /\ UNCHANGED loggingCtx
     ELSE IF QueueFull(loggingCtx)
     THEN /\ worker' = [worker EXCEPT !.pc = "send"]
          /\ loggingCtx' = [loggingCtx EXCEPT !.queueMutex = "worker"]
     ELSE /\ worker' = [worker EXCEPT !.pc = "report"]
          /\ loggingCtx' = startNewBatch(loggingCtx)
  /\ UNCHANGED <<appvars, handlers, process>>

\* a worker that only prints the error and goes on with the next batch
afterReport_GoOn(err) == "recv"

\* startReportWorker after report: if err != nil the worker prints it and
\* calls killInstance, else it takes the next batch
afterReport(err) == IF err = "" THEN "recv" ELSE "kill"

\* logBatch.report: nothing for an empty batch, else one POST to /_ah/log; an
\* error sends the worker to killInstance
WorkerReport ==
  /\ ~process.exited
  /\ worker.pc = "report"
  /\ IF Len(loggingCtx.batches[worker.batch].Entries) = 0
     THEN /\ worker' = [worker EXCEPT !.pc = "recv"]
          /\ UNCHANGED process
     ELSE \E err \in PostOutcomes :
            /\ process' = [process EXCEPT !.posts = @ \o
                   <<Post("/_ah/log", worker.batch, loggingCtx.batches[worker.batch].Entries, err)>>]
            /\ worker' = [worker EXCEPT !.pc = afterReport(err)]
  /\ UNCHANGED <<appvars, loggingCtx, handlers>>

\* killInstance: the POST to /_ah/kill, whose error is only printed
WorkerKillPost ==
  /\ ~process.exited
  /\ worker.pc = "kill"
  /\ \E err \in PostOutcomes :
       process' = [process EXCEPT !.posts = @ \o <<Post("/_ah/kill", 0, <<>>, err)>>]
  /\ worker' = [worker EXCEPT !.pc = "exit"]
  /\ UNCHANGED <<appvars, loggingCtx, handlers>>

\* killInstance: os.Exit(16)
WorkerExit ==
  /\ ~process.exited
  /\ worker.pc = "exit"
  /\ process' = [process EXCEPT !.exited = TRUE, !.code = 16]
  /\ UNCHANGED <<appvars, loggingCtx, handlers, worker>>

NextLog ==
  \/ \E h \in LogReqs : MwEnter(h)
  \/ \E h \in LogReqs : WriteBuild(h)
  \/ \E h \in LogReqs : WriteAdd(h)
  \/ \E h \in LogReqs : HandlerEnd(h)
  \/ \E h \in LogReqs : MwDefer(h)
  \/ WorkerRecv
  \/ WorkerReady
  \/ WorkerReplace
  \/ WorkerReport
  \/ WorkerKillPost
  \/ WorkerExit

SpecLog == InitLog /\ [][NextLog]_vars

\* the worker goroutine is scheduled, and each POST ends, by its timeout at
\* the latest
SpecLogFair == SpecLog /\ WF_vars(WorkerKillPost) /\ WF_vars(WorkerExit)

\* ------------------------------------------------------------------------
\* One request that logs a lot, against the capacity of the queue (SpecQueue)
\* ------------------------------------------------------------------------

\* log writes made in one behaviour of SpecQueue
MaxQueueWrites == 7

QueueReqs == {"h2"}

\* short lines, which fill a batch by their number, and lines longer than
\* the payload of a batch
QueueWrites == {[text |-> <<"a">>, severity |-> "INFO"],
                [text |-> <<"d", "d", "d", "d", "d">>, severity |-> "ERROR"]}

InitQueue ==
  /\ variant = "firestore"
  /\ req = [i \in Reqs |-> Idle]
  /\ memcache = EmptyMap
  /\ firestore = EmptyMap
  /\ lastSet = EmptyMap
  /\ probe = NoProbe
  /\ call = NoCall
  /\ LogInit(TRUE)

QueueWriteBuild(h) == WriteBuildOf(h, QueueWrites, MaxQueueWrites)

NextQueue ==
  \/ \E h \in QueueReqs : MwEnter(h)
  \/ \E h \in QueueReqs : QueueWriteBuild(h)
  \/ \E h \in QueueReqs : WriteAdd(h)
  \/ \E h \in QueueReqs : WriteSendDone(h)
  \/ \E h \in QueueReqs : HandlerEnd(h)
  \/ \E h \in QueueReqs : MwDefer(h)
  \/ WorkerRecv
  \/ WorkerReady
  \/ WorkerReplace
  \/ WorkerReport
  \/ WorkerKillPost
  \/ WorkerExit

SpecQueue == InitQueue /\ [][NextQueue]_vars

\* goroutines that can run do run: the worker's steps, and a writer whose
\* send or lock has become possible
SpecQueueFair ==
  /\ SpecQueue
  /\ WF_vars(WorkerRecv) /\ WF_vars(WorkerReady) /\ WF_vars(WorkerReplace)
  /\ WF_vars(WorkerReport) /\ WF_vars(WorkerKillPost) /\ WF_vars(WorkerExit)
  /\ \A h \in QueueReqs : WF_vars(WriteAdd(h)) /\ WF_vars(WriteSendDone(h))

\* ------------------------------------------------------------------------
\* Reading a request's history
\* ------------------------------------------------------------------------

Done(r) == r.pc = "done"

\* the input has one workout, one day, and the day parses as an integer
ValidInput(q) == Len(q.workout) = 1 /\ Len(q.day) = 1 /\ ~Atoi(q.day[1]).err

\* the positions in r's history of the items whose kind is in T
At(r, T) == {j \in 1..Len(r.trace) : r.trace[j].t \in T}

\* the items of kind in T, in order
Items(seq, T) == SelectSeq(seq, LAMBDA it : it.t \in T)

\* the answers r got to its calls of kind k
AnswersOf(r, k) == SelectSeq(r.answers, LAMBDA a : a.k = k)

\* the error of r's cache read: "none" when r has not read the cache
ReadErr(r) == IF AnswersOf(r, "get") = <<>> THEN "none" ELSE AnswersOf(r, "get")[1].err

\* the error of r's cache write: "none" when r has not written the cache
WriteErr(r) == IF AnswersOf(r, "set") = <<>> THEN "none" ELSE AnswersOf(r, "set")[1].err

\* the cache read returned a usable sequence
CacheHit(r) == ReadErr(r) = "" /\ ~AnswersOf(r, "get")[1].val.isNil

\* the lines of the text OCR returned to r
OcrLines(r) == Split(AnswersOf(r, "ocr")[1].val)

\* OCR or an embed-page fetch failed
PipelineFailed(r) ==
  \E j \in 1..Len(r.answers) : r.answers[j].k \in {"ocr", "fetch"} /\ r.answers[j].err # ""

\* the names of the exercise blocks of a body, in order
BlockNames(body) ==
  LET bs == Items(body, BlockKinds) IN [j \in 1..Len(bs) |-> bs[j].a]

\* the handler run from the start on the answers as, one call at a time
RECURSIVE Run(_, _)
Run(r, as) ==
  IF as = <<>> THEN r
  ELSE IF r.pc \in {"done", "stuck"} THEN [r EXCEPT !.pc = "stuck"]
  ELSE Run(Step(r, Head(as)), Tail(as))

\* the answers of r's calls to OCR and the site
ExternalAnswers(r) == SelectSeq(r.answers, LAMBDA a : a.k \in {"ocr", "fetch"})

\* r's answers with the cache empty and working
HealthyAnswers(r) ==
  [j \in 1..Len(r.answers) |->
     IF r.answers[j].k = "get" THEN Ans("get", "notfound", NilSlice)
     ELSE IF r.answers[j].k = "set" THEN Ans("set", "", <<>>)
     ELSE r.answers[j]]

\* ------------------------------------------------------------------------
\* Properties
\* ------------------------------------------------------------------------

\* the fetch addresses of the accepted lines among ls, in order
FetchesFor(ls) ==
  LET acc == AcceptedLines(ls)
  IN  [j \in 1..Len(acc) |-> getVideoURL(getVideoName(acc[j]))]

\* the addresses r fetched, in order
Fetched(r) == LET fs == Items(r.trace, {"fetch"}) IN [j \in 1..Len(fs) |-> fs[j].a]

\* C1: a request that reads, without error, an entry that an earlier request
\* computed and wrote calls neither OCR nor the exercise site, and what it
\* renders is the cached sequence.
C1_HitSkipsPipeline ==
  \A i \in Reqs :
    LET r == req[i]
    IN  (r.atRead /\ ReadErr(r) = "") =>
          /\ At(r, {"ocr", "fetch"}) = {}
          /\ Done(r) => BlockNames(r.resp.body) = r.src

\* C2: a request that finds no entry and whose OCR call and fetches all
\* succeed makes one OCR call, one fetch for each accepted line and none for
\* the others, and one cache write, after the last fetch and before the
\* first exercise block.
C2_MissRunsPipelineOnce ==
  \A i \in Reqs :
    LET r == req[i]
    IN  (r.v \in Caching /\ Done(r) /\ r.out = "ok" /\ ReadErr(r) = "notfound") =>
          /\ Cardinality(At(r, {"ocr"})) = 1
          /\ Fetched(r) = FetchesFor(OcrLines(r))
          /\ Cardinality(At(r, {"set"})) = 1
          /\ \A w \in At(r, {"set"}) :
               /\ \A f \in At(r, {"fetch"}) : f < w
               /\ \A b \in At(r, BlockKinds) : w < b

\* a miss whose text has an accepted and a rejected line has completed
C2_Witness ==
  \E i \in Reqs :
    LET r == req[i]
    IN  /\ r.v \in Caching /\ Done(r) /\ r.out = "ok" /\ ReadErr(r) = "notfound"
        /\ Len(AcceptedLines(OcrLines(r))) >= 1
        /\ Len(AcceptedLines(OcrLines(r))) < Len(OcrLines(r))
        /\ At(r, BlockKinds) # {}

\* C3: after a write of s under a key has succeeded, a read of that key that
\* the backend answers returns, without error, a sequence equal to s element
\* by element.
C3_RoundTrip ==
  \A j \in 1..Len(probe.got) :
    LET g == probe.got[j]
    IN  (~g.fail /\ g.key \in DOMAIN probe.saved) =>
          /\ g.ans.err = ""
          /\ g.ans.exs.elems = probe.saved[g.key].elems

\* what a client and an operator see of two runs is the same: response,
\* outcome, and everything done but the log lines
SameOutcome(r, b) ==
  /\ b.pc = "done"
  /\ b.resp = r.resp
  /\ b.out = r.out

\* the history of r without its log lines and cache calls
Work(r) == SelectSeq(r.trace, LAMBDA it : it.t \notin {"log", "get", "set"})

\* C4: when the cache has no entry for the image, the response of the caching
\* fasthttp handler is the response of the handler without a cache given the
\* same input and the same answers from OCR and the exercise site.
C4_MissEqualsBypass ==
  \A i \in Reqs :
    LET r == req[i]
    IN  (r.v = "memcache" /\ Done(r) /\ ReadErr(r) \in {"none", "notfound"}) =>
          LET b == Run(Entry("nocache", r.q), ExternalAnswers(r))
          IN  SameOutcome(r, b) /\ Work(b) = Work(r)

\* a miss of the caching fasthttp handler has rendered two blocks
C4_Witness ==
  \E i \in Reqs :
    LET r == req[i]
    IN  /\ r.v = "memcache" /\ Done(r) /\ ReadErr(r) = "notfound"
        /\ r.out = "ok"
        /\ Len(BlockNames(r.resp.body)) = 2

\* C5: in every variant a request with valid input has written the image tag
\* of its image, and has written it before any cache read, OCR call or fetch.
C5_ImageTagFirst ==
  \A i \in Reqs :
    LET r == req[i]
    IN  (r.pc # "idle" /\ ValidInput(r.q)) =>
          \E p \in At(r, {"img"}) :
            /\ r.trace[p] = ImgItem(getImageURL(r.q.workout[1], r.q.day[1]).url)
            /\ \A c \in At(r, {"get", "ocr", "fetch"}) : p < c

\* a request with valid input has read the cache, called OCR and fetched
C5_Witness ==
  \E i \in Reqs :
    LET r == req[i]
    IN  /\ ValidInput(r.q)
        /\ At(r, {"get"}) # {} /\ At(r, {"ocr"}) # {} /\ At(r, {"fetch"}) # {}

\* C6: in every variant, when OCR or a fetch fails no exercise block is
\* written, and the response is the image tag followed by the error.
C6_FailureLeavesImageAndError ==
  \A i \in Reqs :
    LET r == req[i]
    IN  (Done(r) /\ PipelineFailed(r)) =>
          /\ At(r, BlockKinds) = {}
          /\ Len(r.resp.body) = 2
          /\ r.resp.body[1].t = "img"
          /\ r.resp.body[2].t = "error"

\* C7: in the net/http variant a request whose pipeline fails is delivered
\* with status 500.
C7_FailureStatus500 ==
  \A i \in Reqs :
    LET r == req[i]
    IN  (r.v = "firestore" /\ Done(r) /\ PipelineFailed(r)) => r.resp.status = 500

\* C8: in every variant a request with invalid input ends in an error
\* response without having written the image tag, read or written the cache,
\* called OCR or fetched.
C8_InvalidInputDoesNothing ==
  \A i \in Reqs :
    LET r == req[i]
    IN  (r.pc # "idle" /\ ~ValidInput(r.q)) =>
          /\ Done(r) /\ r.out = "error"
          /\ r.resp.status = 500
          /\ At(r, {"img", "get", "ocr", "fetch", "set"}) = {}

\* C9: a cache read that fails or a cache write that fails leaves the
\* response what the same request gets from an empty, working cache; the
\* pipeline runs, and only the log differs.
C9_CacheFailureTransparent ==
  \A i \in Reqs :
    LET r == req[i]
    IN  (r.v \in Caching /\ Done(r) /\ (ReadErr(r) = "other" \/ WriteErr(r) = "other")) =>
          LET b == Run(Entry(r.v, r.q), HealthyAnswers(r))
          IN  /\ SameOutcome(r, b)
              /\ SelectSeq(b.trace, LAMBDA it : it.t # "log")
                   = SelectSeq(r.trace, LAMBDA it : it.t # "log")
              /\ Len(Items(r.trace, {"log"})) > Len(Items(b.trace, {"log"}))
              /\ At(r, {"ocr"}) # {}

\* a request whose cache read failed and whose cache write failed has
\* rendered a block
C9_Witness ==
  \E i \in Reqs :
    LET r == req[i]
    IN  /\ r.v \in Caching /\ Done(r)
        /\ ReadErr(r) = "other" /\ WriteErr(r) = "other"
        /\ Len(BlockNames(r.resp.body)) >= 1

\* C10: the exercise blocks of a completed response are one per accepted
\* line, in the order of the lines: of the lines OCR returned to this request
\* on a miss, of the lines the entry was computed from on a hit.
C10_BlocksInLineOrder ==
  \A i \in Reqs :
    LET r == req[i]
    IN  (Done(r) /\ r.out = "ok") =>
          BlockNames(r.resp.body) =
            IF CacheHit(r) THEN r.src ELSE AcceptedLines(OcrLines(r))

\* a hit has rendered two different exercises
C10_Witness ==
  \E i \in Reqs :
    LET r == req[i]
    IN  /\ Done(r) /\ r.out = "ok" /\ CacheHit(r)
        /\ Len(r.src) = 2 /\ r.src[1] # r.src[2]
        /\ BlockNames(r.resp.body) = r.src

\* the sequence stored in a cache entry of the running variant
Decode(v) == IF variant = "memcache" THEN jsonUnmarshal(v) ELSE DataTo(v)

\* OCR and every fetch of r have answered, one fetch per accepted line, none failed
PipelineSucceeded(r) ==
  /\ AnswersOf(r, "ocr") # <<>>
  /\ ~PipelineFailed(r)
  /\ Len(AnswersOf(r, "fetch")) = Len(AcceptedLines(OcrLines(r)))

\* what the pipeline run of r returns: one exercise per accepted line, with
\* the identifier found in the page fetched for it
PipelineResult(r) ==
  LET acc == AcceptedLines(OcrLines(r))
      fs == AnswersOf(r, "fetch")
  IN  [j \in 1..Len(acc) |-> exercise(acc[j], EmbedMatch(fs[j].val))]

\* every entry holds one exercise per accepted line of the text it was computed from
EntriesComplete ==
  \A k \in DOMAIN Store :
    LET es == Decode(Store[k]).elems
    IN  [j \in 1..Len(es) |-> es[j].Name] = lastSet[k]

\* an entry that appears or changes is the whole result of a request for
\* that image whose pipeline run succeeded
WriteIsResult ==
  \A k \in DOMAIN Store' :
    (k \notin DOMAIN Store \/ Store'[k] # Store[k]) =>
      \E i \in ConcReqs :
        /\ CacheKey(req[i]) = k
        /\ PipelineSucceeded(req[i])
        /\ Decode(Store'[k]).elems = PipelineResult(req[i])

\* C11: with requests interleaved in any way and any failures, every cache
\* entry holds a complete sequence, and the cache only ever changes by an
\* entry becoming the whole result of a successful pipeline run for its image
\* (or by an entry expiring); a run that fails writes nothing.
C11_EntriesAreWholeResults == [][WriteIsResult]_vars /\ []EntriesComplete

\* two requests missed on the same image; one failed at its second fetch,
\* the other wrote the entry that is in the cache
C11_Witness ==
  \E i, j \in ConcReqs :
    /\ i # j
    /\ req[i].imageURL = req[j].imageURL
    /\ ReadErr(req[i]) = "notfound" /\ ReadErr(req[j]) = "notfound"
    /\ PipelineFailed(req[j]) /\ Len(AnswersOf(req[j], "fetch")) = 2
    /\ Done(req[i]) /\ WriteErr(req[i]) = ""
    /\ CacheKey(req[i]) \in DOMAIN Store
    /\ Len(Decode(Store[CacheKey(req[i])]).elems) = 2

\* l begins with one or more digits, then one or more whitespace characters,
\* then at least one more character
StartsWithCount(l) ==
  \E d \in 1..Len(l), w \in 1..Len(l) :
    /\ d + w < Len(l)
    /\ \A i \in 1..d : l[i] \in DigitChars
    /\ \A i \in (d + 1)..(d + w) : l[i] \in SpaceChars

\* C12: getVideoName returns the empty string exactly when the lower-cased
\* line does not begin with a count, whitespace and a remainder, or holds
\* "between"; every other line gives a slug that is not empty.
C12_NoMatchExactly ==
  call.fn = "getVideoName" =>
    LET low == ToLower(call.arg[1])
    IN  (call.res = <<>>) <=> (~StartsWithCount(low) \/ Contains(low, BetweenLit))

\* a line with a count and "Between" in mixed case has been rejected
C12_Witness ==
  /\ call.fn = "getVideoName"
  /\ StartsWithCount(ToLower(call.arg[1]))
  /\ Contains(call.arg[1], <<"B", "e", "t", "w", "e", "e", "n">>)
  /\ call.res = <<>>

\* C13: a slug that is not empty is made of words of lowercase letters,
\* digits and underscore joined by single hyphens: no other character, no
\* hyphen first or last, no two hyphens in a row.
C13_CanonicalSlug ==
  (call.fn = "getVideoName" /\ call.res # <<>>) =>
    LET slug == call.res
    IN  /\ \A i \in 1..Len(slug) : slug[i] \in LowerChars \cup DigitChars \cup {"_", "-"}
        /\ slug[1] # "-"
        /\ slug[Len(slug)] # "-"
        /\ \A i \in 1..(Len(slug) - 1) : ~(slug[i] = "-" /\ slug[i + 1] = "-")

\* the exception table of the claim
ExceptionOf(slug) ==
  IF slug = <<"a", "l", "t", "-", "a", "r", "m", "-", "l", "e", "g", "-", "r", "a", "i", "s", "e", "s">>
  THEN <<"a", "r", "m", "-", "l", "e", "g", "-", "r", "a", "i", "s", "e", "s">>
  ELSE IF slug = <<"l", "u", "n", "g", "e", "s", "-", "e", "x", "e", "r", "c", "i", "s", "e">>
  THEN <<"f", "o", "r", "w", "a", "r", "d", "-", "l", "u", "n", "g", "e", "s">>
  ELSE slug

\* C14: for an accepted line with collapsed slug s the result is the
\* exception lookup of s, after "-exercise" has been added to an s without
\* hyphen.
C14_SuffixThenException ==
  (call.fn = "getVideoName" /\ call.res # <<>>) =>
    LET s == CollapseHyphens(ReplaceNonWord(CountMatch(ToLower(call.arg[1]))))
        suffixed == IF \E i \in 1..Len(s) : s[i] = "-" THEN s
                    ELSE s \o <<"-", "e", "x", "e", "r", "c", "i", "s", "e">>
    IN  call.res = ExceptionOf(suffixed)

\* the single word lunges has become forward-lunges
C14_Witness ==
  /\ call.fn = "getVideoName"
  /\ CollapseHyphens(ReplaceNonWord(CountMatch(ToLower(call.arg[1])))) = <<"l", "u", "n", "g", "e", "s">>
  /\ call.res = <<"f", "o", "r", "w", "a", "r", "d", "-", "l", "u", "n", "g", "e", "s">>

\* n >= 0 in decimal, with a leading zero when it has one digit
Pad2(n) == IF n < 10 THEN <<"0", DigitChar(n)>> ELSE Decimal(n)

\* C15: for a day string that parses as an integer n >= 0, getImageURL
\* succeeds and returns the address made of the lower-cased program and n
\* written with at least two digits, and of nothing else.
C15_ImageURLForm ==
  (call.fn = "getImageURL" /\ ~Atoi(call.arg[2]).err /\ Atoi(call.arg[2]).n >= 0) =>
    /\ ~call.res.err
    /\ call.res.url = ImagePrefix \o ToLower(call.arg[1]) \o <<"/", "w", "e", "b", "/", "d", "a", "y">>
                        \o Pad2(Atoi(call.arg[2]).n) \o <<".", "j", "p", "g">>

\* a program in upper case and a day with a leading zero have been resolved
C15_Witness ==
  /\ call.fn = "getImageURL"
  /\ call.arg = <<<<"F", "b">>, <<"0", "1", "3">>>>
  /\ ~call.res.err
  /\ SubSeq(call.res.url, Len(ImagePrefix) + 1, Len(call.res.url))
       = <<"f", "b", "/", "w", "e", "b", "/", "d", "a", "y", "1", "3", ".", "j", "p", "g">>

\* the part of an image address between "day" and ".jpg"
DayPart(program, url) ==
  SubSeq(url, Len(ImagePrefix) + Len(program) + Len(ImageMiddle) + 1, Len(url) - Len(ImageSuffix))

\* C16: whenever getImageURL succeeds, the day part of the address is made
\* of decimal digits only, and of at least two.
C16_DayPartDigits ==
  (call.fn = "getImageURL" /\ ~call.res.err) =>
    LET part == DayPart(call.arg[1], call.res.url)
    IN  /\ Len(part) >= 2
        /\ \A i \in 1..Len(part) : part[i] \in DigitChars

\* C17: the result of getYoutubeEmbed on a page is empty when the page has
\* no embed reference, and only when no reference is followed by an
\* identifier; a result that is not empty is the text right after the first
\* reference, and holds no "?", "/", quote, whitespace or markup.
C17_BareIdentifier ==
  call.fn = "getYoutubeEmbed" =>
    LET body == call.arg[1]
        refs == {i \in 1..Len(body) : body[i] = EmbedLit}
        embeds == {i \in refs : i < Len(body) /\ body[i + 1] = "Z"}
    IN  /\ refs = {} => call.res = <<>>
        /\ call.res = <<>> => embeds = {}
        /\ call.res # <<>> =>
             /\ \A i \in 1..Len(call.res) : call.res[i] \notin {"?", "/", "\"", " ", "<", EmbedLit}
             /\ LET f == CHOOSE x \in refs : \A y \in refs : x <= y
                IN  SubSeq(body, f + 1, f + Len(call.res)) = call.res

\* every log entry made so far: in the batches, on the console, or built
\* and not yet added
RECURSIVE EntriesOf(_)
EntriesOf(bs) ==
  IF bs = <<>> THEN {}
  ELSE {Head(bs).Entries[k] : k \in 1..Len(Head(bs).Entries)} \cup EntriesOf(Tail(bs))

LogEntries ==
  EntriesOf(loggingCtx.batches)
    \cup {process.console[k] : k \in 1..Len(process.console)}
    \cup {handlers[h].entry[1] : h \in {g \in LogReqs : handlers[g].entry # <<>>}}

\* C18: every log entry created by a write made while request R is handled
\* carries the Function-Execution-Id of R, also with several requests handled
\* concurrently by the one process.
C18_EntryCarriesOwnRequestId ==
  \A e \in LogEntries : e.ExecutionID = ExecIdOf(e.by)

InFlight(h) == handlers[h].pc \notin {"idle", "done"}

\* the middleware's two writes of the identifier
MwSetsThenResets ==
  \A h \in LogReqs :
    /\ (~InFlight(h) /\ InFlight(h)') =>
          /\ handlers'[h].pc = "handling"
          /\ executionID(loggingCtx') = ExecIdOf(h)
    /\ (InFlight(h) /\ ~InFlight(h)') =>
          /\ handlers[h].ended \in {"return", "panic"}
          /\ executionID(loggingCtx') = ""
    /\ (handlers[h].pc = "handling" /\ handlers'[h].pc \notin {"handling", "adding"}) =>
          handlers'[h].pc = "deferred"

\* C19: the middleware sets the execution identifier to the request's
\* Function-Execution-Id before the wrapped handler runs, and resets it to
\* empty when the handler ends, by return or by panic; whenever no request is
\* in flight the stored identifier is empty.
C19_SetBeforeResetAfter ==
  /\ [][MwSetsThenResets]_vars
  /\ []((\A h \in LogReqs : ~InFlight(h)) => executionID(loggingCtx) = "")

C19_Witness ==
  /\ handlers["h1"].pc = "done" /\ handlers["h1"].ended = "panic"
  /\ handlers["h2"].pc = "done" /\ handlers["h2"].ended = "return"
  /\ executionID(loggingCtx) = ""
  /\ LogEntries # {}

FailedRelays ==
  {i \in 1..Len(process.posts) :
     process.posts[i].path = "/_ah/log" /\ process.posts[i].err # ""}

KillPosted ==
  /\ process.posts # <<>>
  /\ process.posts[Len(process.posts)].path = "/_ah/kill"

\* what the history of POSTs and the worker look like once a relay has failed
RelayFailureIsFatal ==
  /\ \A i \in FailedRelays :
       /\ i >= Len(process.posts) - 1
       /\ Len(loggingCtx.batches[process.posts[i].batch].Entries) > 0
       /\ IF i = Len(process.posts)
          THEN worker.pc = "kill" /\ ~process.exited
          ELSE KillPosted /\ (worker.pc = "exit" \/ process.exited)
  /\ process.exited => (process.code = 16 /\ KillPosted /\ FailedRelays # {})
  /\ KillPosted => FailedRelays = {Len(process.posts) - 1}

\* C20: when relaying a non-empty batch fails (transport error, timeout or
\* non-2xx response) the worker issues the kill POST to /_ah/kill and the
\* process then terminates with exit code 16, also when the kill POST itself
\* fails, and no batch is relayed after the failed one.
C20_FailedRelayKillsProcess ==
  /\ []RelayFailureIsFatal
  /\ (FailedRelays # {}) ~> (process.exited /\ process.code = 16)

C20_Witness ==
  /\ process.exited
  /\ process.code = 16
  /\ Len(process.posts) = 3
  /\ process.posts[1].err = ""
  /\ process.posts[2].err = "code"
  /\ process.posts[3].path = "/_ah/kill" /\ process.posts[3].err = "timeout"

RECURSIVE PayloadLen(_)
PayloadLen(entries) ==
  IF entries = <<>> THEN 0
  ELSE Len(Head(entries).TextPayload) + PayloadLen(Tail(entries))

\* the POSTs of batches made so far, by their place in the history
LogPosts == {i \in 1..Len(process.posts) : process.posts[i].path = "/_ah/log"}

\* a batch with room left: fewer entries and less payload than the limits
HasRoom(entries) ==
  /\ Len(entries) < maxLogBatchEntries
  /\ PayloadLen(entries) < maxLogBatchLength

\* the worker takes its batch to report
TakesForRelay == worker.pc = "lock" /\ worker'.pc = "report"

\* C21: a batch is closed and becomes eligible for shipping only when the next
\* entry would push it over the entry limit or the payload limit; a batch
\* holding fewer entries and less payload than the limits is not relayed
\* while it can still take the next entry.
C21_RelayedOnlyWhenFull ==
  [][TakesForRelay => worker.batch # loggingCtx.currentBatch]_vars

\* C21 as the code has it: a batch is eligible for shipping from its first
\* entry on; the worker takes it when it comes off the queue, and closes it
\* by replacing it if it is still current, so that a batch is relayed with
\* whatever it holds then, at least one entry.
C21_ReadyAtFirstEntry ==
  /\ [](\A b \in 1..Len(loggingCtx.batches) :
          loggingCtx.batches[b].ready <=> loggingCtx.batches[b].Entries # <<>>)
  /\ [][TakesForRelay =>
          /\ loggingCtx.batches[worker.batch].ready
          /\ worker.batch # loggingCtx'.currentBatch]_vars
  /\ [](\A i \in LogPosts : process.posts[i].payload # <<>>)

C21_Witness ==
  \E i \in LogPosts :
    /\ process.posts[i].err = ""
    /\ HasRoom(process.posts[i].payload)
    /\ Len(process.posts[i].payload) = 1
    /\ process.posts[i].payload[1].TextPayload = <<"a">>

\* C22: log intake never blocks on relay: a log write (addEntry) always
\* completes without waiting for the relay worker, however long a relay POST
\* is in progress and however many filled batches are pending in the queue.
C22_WriteNeverWaitsForWorker ==
  \A h \in LogReqs :
    /\ handlers[h].pc # "send"
    /\ (handlers[h].pc = "adding" /\ ~process.exited) => ENABLED WriteAdd(h)

\* a writer holds the mutex in a send on the full queue, and the worker,
\* the only receiver, waits for the mutex
CircularWait ==
  /\ ~process.exited
  /\ worker.pc = "lock"
  /\ QueueFull(loggingCtx)
  /\ \E h \in LogReqs : handlers[h].pc = "send" /\ loggingCtx.queueMutex = h

\* C25: the logging context cannot deadlock: when the worker replaces the
\* current batch, enqueueing a fresh one while it holds the mutex, the queue
\* has room, so the worker never blocks on that enqueue, under any
\* interleaving with concurrent log writers.
C25_NoDeadlock ==
  /\ worker.pc # "send"
  /\ ~CircularWait

\* the entries relayed so far: the bodies of the POSTs that succeeded, in order
RECURSIVE RelayedIn(_)
RelayedIn(posts) ==
  IF posts = <<>> THEN <<>>
  ELSE (IF Head(posts).path = "/_ah/log" /\ Head(posts).err = ""
        THEN Head(posts).payload ELSE <<>>) \o RelayedIn(Tail(posts))

Relayed == RelayedIn(process.posts)

\* C27: with the relay configured and every relay POST successful, every
\* entry accepted by addEntry is eventually relayed under fair scheduling of
\* the worker, also when no further write happens and the entry's batch never
\* reaches a limit.
C27_AcceptedEventuallyRelayed ==
  \A k \in 1..MaxQueueWrites :
    (Len(process.accepted) >= k) ~> (Len(Relayed) >= k \/ FailedRelays # {})

\* the worker has begun relaying batch b, or has relayed it
Relaying(b) ==
  \/ worker.batch = b /\ worker.pc \in {"report", "kill", "exit"}
  \/ \E i \in LogPosts : process.posts[i].batch = b

EntriesBefore(b) ==
  IF b <= Len(loggingCtx.batches) THEN loggingCtx.batches[b].Entries ELSE <<>>

\* every change of a batch's entries is one append to the batch that is
\* current, and not to one the worker has begun to relay
AppendsOnlyToCurrent ==
  \A b \in 1..Len(loggingCtx'.batches) :
    loggingCtx'.batches[b].Entries # EntriesBefore(b) =>
      /\ b = loggingCtx'.currentBatch
      /\ ~Relaying(b)
      /\ Len(loggingCtx'.batches[b].Entries) = Len(EntriesBefore(b)) + 1
      /\ SubSeq(loggingCtx'.batches[b].Entries, 1, Len(EntriesBefore(b))) = EntriesBefore(b)

\* C23: under any interleaving of concurrent log writers and the relay
\* worker, exactly one batch is current at a time, entries are appended only
\* to the current batch, and no entry is appended to a batch once the worker
\* has begun relaying it: what the worker serializes is fixed.
C23_OneCurrentBatch ==
  /\ [](loggingCtx.configured => loggingCtx.currentBatch \in 1..Len(loggingCtx.batches))
  /\ [][AppendsOnlyToCurrent]_vars
  /\ [](\A b \in 1..Len(loggingCtx.batches) : Relaying(b) => b # loggingCtx.currentBatch)
  /\ [](\A i \in LogPosts :
          process.posts[i].payload = loggingCtx.batches[process.posts[i].batch].Entries)

C23_Witness ==
  /\ worker.pc = "report"
  /\ worker.batch = 1
  /\ loggingCtx.currentBatch = 2
  /\ loggingCtx.batches[1].Entries # <<>>
  /\ loggingCtx.batches[2].Entries # <<>>
  /\ loggingCtx.batches[1].Entries[1].by # loggingCtx.batches[2].Entries[1].by

\* C24: in every reachable state every batch holds at most
\* maxLogBatchEntries entries, and its cumulative payload length is at most
\* maxLogBatchLength unless the batch consists of a single entry that alone
\* exceeds that length.
C24_BatchWithinLimits ==
  \A b \in 1..Len(loggingCtx.batches) :
    LET batch == loggingCtx.batches[b]
    IN  /\ Len(batch.Entries) <= maxLogBatchEntries
        /\ batch.payloadLength = PayloadLen(batch.Entries)
        /\ batch.payloadLength > maxLogBatchLength =>
             /\ Len(batch.Entries) = 1
             /\ Len(batch.Entries[1].TextPayload) > maxLogBatchLength

C24_Witness ==
  /\ \E b \in 1..Len(loggingCtx.batches) :
       /\ Len(loggingCtx.batches[b].Entries) = maxLogBatchEntries
       /\ b < loggingCtx.currentBatch
  /\ \E b \in 1..Len(loggingCtx.batches) :
       loggingCtx.batches[b].payloadLength > maxLogBatchLength
  /\ \E b \in 1..(Len(loggingCtx.batches) - 1) :
       /\ Len(loggingCtx.batches[b].Entries) = 1
       /\ loggingCtx.batches[b].payloadLength < maxLogBatchLength
       /\ loggingCtx.batches[b + 1].payloadLength > maxLogBatchLength
       /\ loggingCtx.batches[b + 1].Entries[1].Time = loggingCtx.batches[b].Entries[1].Time + 1

IsPrefix(p, q) == Len(p) <= Len(q) /\ SubSeq(q, 1, Len(p)) = p

\* C26: at every moment the entries of the batches relayed so far, in relay
\* order, are a prefix of the entries accepted by addEntry, in acceptance
\* order: no accepted entry is relayed twice, skipped or reordered, under any
\* interleaving of concurrent writers.
C26_RelayedIsPrefixOfAccepted == IsPrefix(Relayed, process.accepted)

C26_Witness ==
  /\ Len(Relayed) = 2
  /\ Len(process.posts) = 1
  /\ Relayed[1].by # Relayed[2].by
  /\ Relayed[1].Time > Relayed[2].Time

\* request i has read the cache, or written it
UsedCache(i) == ReadErr(req[i]) # "none" \/ WriteErr(req[i]) # "none"

\* C28: in the document-store variant the cache key transformation is
\* injective over the image URLs the handler can produce: two requests whose
\* image URLs differ (say because their workout parameters differ only in
\* '/', ':' or '_') never read or write the same cache document, so a
\* write for one image never changes what is rendered for another.
C28_KeysInjective ==
  \A i, j \in ConcReqs :
    /\ (UsedCache(i) /\ UsedCache(j) /\ req[i].imageURL # req[j].imageURL)
          => CacheKey(req[i]) # CacheKey(req[j])
    /\ CacheHit(req[j]) =>
          \E k \in ConcReqs : /\ WriteErr(req[k]) = ""
                              /\ req[k].imageURL = req[j].imageURL

====
